---- MODULE Spec2Model ----
(***************************************************************************)
(* A model of the linkheader crate's reduction of RFC 8288 Link header     *)
(* tokens into links (src/src/parser.rs, src/src/param.rs).                *)
(*                                                                         *)
(* Texts are sequences of one-character strings, so that splitting,        *)
(* percent-encoding and URL resolution are computed character by           *)
(* character.  Option<T> is a sequence of length 0 (None) or 1 (Some).     *)
(***************************************************************************)
EXTENDS Integers, Sequences, FiniteSets, Bags, TLC

VARIABLES
    pc,        \* position of collect_header: "header", "link" or "done"
    context,   \* the base URL handed to parse (Option<Url>)
    lb,        \* the LinkBuilder of the current link group
    raw,       \* the params collect_links has read from the current group
    out,       \* what the last build() returned (Vec<Link>)
    links,     \* collect_header's links accumulator
    ngroups,   \* link groups built so far
    nnodes,    \* link and param nodes read so far over the whole header
    call,      \* the entry point called and the rule of the node it is given
    node,      \* the param node collect_param read last (Option)
    result,    \* what the entry point returned (Pending until it returns)
    displayed, \* a Value that is displayed (Option)
    shown      \* its Display text (Option)

vars == <<pc, context, lb, raw, out, links, ngroups, nnodes, call, node, result,
          displayed, shown>>

(* Bound of the model: the link and param nodes of one header. *)
MaxNodes == 4

None == <<>>
Some(x) == <<x>>
IsSome(o) == Len(o) = 1
IsNone(o) == Len(o) = 0
Unwrap(o) == o[1]

(***************************************************************************)
(* param.rs: Encoding, Value, Param                                        *)
(***************************************************************************)
Utf8 == <<"Utf8">>
Extension(ext) == <<"Extension", ext>>

Simple(text) == [kind |-> "Simple", value |-> text]
Compound(enc, lang, text) ==
    [kind |-> "Compound", encoding |-> enc, language |-> lang, value |-> text]

is_simple(v) == v.kind = "Simple"
is_compound(v) == v.kind = "Compound"

ParamNew(name, value) == [name |-> name, value |-> value]

(* error.rs: Result<T>, and the errors parse can return. *)
Pending == <<>>
Ok(x) == <<"Ok", x>>
Err(e) == <<"Err", e>>
IsOk(r) == r # <<>> /\ r[1] = "Ok"
IsErr(r) == r # <<>> /\ r[1] = "Err"
InvalidRule(expected, given) == <<"InvalidRule", expected, given>>
Utf8Error == <<"Utf8Error">>

Header(ls) == [links |-> ls]

(* DEFAULT_ENCODE_SET of the percent_encoding crate, restricted to the     *)
(* characters of the model: space, # and the non-ASCII pound sign (bytes   *)
(* C2 A3 in UTF-8) are encoded, the others (% among them) are not.         *)
PctEncodeChar(c) ==
    CASE c = " " -> <<"%", "2", "0">>
      [] c = "#" -> <<"%", "2", "3">>
      [] c = "£" -> <<"%", "C", "2", "%", "A", "3">>
      [] OTHER   -> <<c>>

RECURSIVE utf8_percent_encode(_)
utf8_percent_encode(s) ==
    IF s = <<>> THEN <<>>
    ELSE PctEncodeChar(Head(s)) \o utf8_percent_encode(Tail(s))

EncodingToString(enc) ==
    IF enc = Utf8 THEN <<"U", "T", "F", "-", "8">> ELSE enc[2]

(* Variant: the value is percent-encoded whatever the encoding. *)
to_string_encode_all(v) ==
    IF is_simple(v) THEN v.value
    ELSE LET lang == IF IsSome(v.language) THEN Unwrap(v.language) ELSE <<>>
         IN  EncodingToString(v.encoding) \o <<"'">> \o lang \o <<"'">>
                \o utf8_percent_encode(v.value)

(* impl Display for Value *)
to_string(v) ==
    IF is_simple(v) THEN v.value
    ELSE LET val == IF v.encoding = Utf8 THEN utf8_percent_encode(v.value)
                    ELSE v.value
             lang == IF IsSome(v.language) THEN Unwrap(v.language) ELSE <<>>
         IN  EncodingToString(v.encoding) \o <<"'">> \o lang \o <<"'">> \o val

(* str::to_lowercase, for the letters of the model. *)
LowerChar(c) ==
    CASE c = "U" -> "u" [] c = "T" -> "t" [] c = "F" -> "f"
      [] c = "A" -> "a" [] c = "B" -> "b" [] c = "C" -> "c"
      [] OTHER -> c

to_lowercase(s) == [i \in 1..Len(s) |-> LowerChar(s[i])]

(* Variant: the charset is compared as written, "utf-8" only. *)
EncodingFrom_exact(s) ==
    IF s = <<"u", "t", "f", "-", "8">> THEN Utf8 ELSE Extension(to_lowercase(s))

(* impl From<&str> for Encoding *)
EncodingFrom(s) ==
    LET sl == to_lowercase(s)
    IN  IF sl = <<"u", "t", "f", "-", "8">> THEN Utf8 ELSE Extension(sl)

(* percent_decode: every "%" followed by two hex digits becomes one byte,  *)
(* every other character stands for its own byte.                          *)
HexVal(c) ==
    CASE c = "0" -> 0 [] c = "2" -> 2 [] c = "3" -> 3 [] c = "5" -> 5
      [] c = "8" -> 8 [] c \in {"a", "A"} -> 10 [] c \in {"b", "B"} -> 11
      [] c \in {"c", "C"} -> 12 [] c \in {"f", "F"} -> 15
      [] OTHER -> -1

(* The code points of the characters of the model. *)
CodePoint(c) ==
    CASE c = " " -> 32 [] c = "#" -> 35 [] c = "%" -> 37 [] c = "'" -> 39
      [] c = "-" -> 45 [] c = "/" -> 47 [] c = "0" -> 48 [] c = "2" -> 50
      [] c = "3" -> 51 [] c = "5" -> 53 [] c = "8" -> 56 [] c = ":" -> 58
      [] c = "A" -> 65 [] c = "B" -> 66 [] c = "C" -> 67 [] c = "F" -> 70
      [] c = "T" -> 84 [] c = "U" -> 85 [] c = "a" -> 97 [] c = "b" -> 98
      [] c = "c" -> 99 [] c = "d" -> 100 [] c = "e" -> 101 [] c = "f" -> 102
      [] c = "t" -> 116 [] c = "u" -> 117 [] c = "£" -> 163

Chars == {" ", "#", "%", "'", "-", "/", "0", "2", "3", "5", "8", ":", "A", "B",
          "C", "F", "T", "U", "a", "b", "c", "d", "e", "f", "t", "u", "£"}

Chr(cp) == CHOOSE c \in Chars : CodePoint(c) = cp

(* str::as_bytes of one character. *)
Utf8Bytes(c) == IF c = "£" THEN <<194, 163>> ELSE <<CodePoint(c)>>

RECURSIVE percent_decode(_)
percent_decode(s) ==
    IF s = <<>> THEN <<>>
    ELSE IF s[1] = "%" /\ Len(s) >= 3 /\ HexVal(s[2]) >= 0 /\ HexVal(s[3]) >= 0
         THEN <<16 * HexVal(s[2]) + HexVal(s[3])>> \o percent_decode(SubSeq(s, 4, Len(s)))
         ELSE Utf8Bytes(s[1]) \o percent_decode(Tail(s))

(* Variant: from_utf8_lossy, undecodable bytes are dropped, never an error. *)
RECURSIVE decode_utf8_lossy(_)
decode_utf8_lossy(bytes) ==
    IF bytes = <<>> THEN Ok(<<>>)
    ELSE IF bytes[1] < 128
         THEN Ok(<<Chr(bytes[1])>> \o decode_utf8_lossy(Tail(bytes))[2])
         ELSE decode_utf8_lossy(Tail(bytes))

(* decode_utf8 over one-byte and two-byte sequences; the bytes of the      *)
(* model start no longer sequence, so any other byte is an error.          *)
RECURSIVE decode_utf8(_)
decode_utf8(bytes) ==
    IF bytes = <<>> THEN Ok(<<>>)
    ELSE IF bytes[1] < 128
         THEN LET rest == decode_utf8(Tail(bytes))
              IN  IF IsErr(rest) THEN rest ELSE Ok(<<Chr(bytes[1])>> \o rest[2])
    ELSE IF /\ bytes[1] >= 194 /\ bytes[1] <= 223 /\ Len(bytes) >= 2
            /\ bytes[2] >= 128 /\ bytes[2] <= 191
         THEN LET rest == decode_utf8(SubSeq(bytes, 3, Len(bytes)))
                  cp == (bytes[1] - 192) * 64 + (bytes[2] - 128)
              IN  IF IsErr(rest) THEN rest ELSE Ok(<<Chr(cp)>> \o rest[2])
    ELSE Err(Utf8Error)

(* A param node of the tokenizer: its name node and, if any, its value     *)
(* node (token_value, quoted_value, or encoding, language and pct_value).  *)
ParamNode(name, kind, encoding, language, text) ==
    [name |-> name, kind |-> kind, encoding |-> encoding, language |-> language,
     text |-> text]

(* parser.rs: collect_param *)
collect_param(n) ==
    IF n.kind = "none" THEN Ok(ParamNew(n.name, None))
    ELSE IF n.kind \in {"token", "quoted"} THEN Ok(ParamNew(n.name, Some(Simple(n.text))))
    ELSE LET enc == EncodingFrom(n.encoding)
         IN  IF enc = Utf8
             THEN LET decoded_value == decode_utf8(percent_decode(n.text))
                  IN  IF IsErr(decoded_value) THEN decoded_value
                      ELSE Ok(ParamNew(n.name,
                                 Some(Compound(enc, n.language, decoded_value[2]))))
             ELSE Ok(ParamNew(n.name, Some(Compound(enc, n.language, n.text))))

(* Variant: lib.rs's check, which reports and goes on. *)
ensure_rule_report_only(expected, given) == Ok(given)

(* ensure!(pair.as_rule() == Rule::x, ParserError::InvalidRule(Rule::x, ..)) *)
ensure_rule(expected, given) ==
    IF given = expected THEN Ok(given) ELSE Err(InvalidRule(expected, given))

(***************************************************************************)
(* str::split(" "): the pieces between single spaces, empty pieces kept.   *)
(***************************************************************************)
FirstIndex(s, c) ==
    IF \E i \in 1..Len(s) : s[i] = c
    THEN CHOOSE i \in 1..Len(s) : s[i] = c /\ \A j \in 1..(i - 1) : s[j] # c
    ELSE 0

RECURSIVE Split(_)
Split(s) ==
    LET i == FirstIndex(s, " ")
    IN  IF i = 0 THEN <<s>>
        ELSE <<SubSeq(s, 1, i - 1)>> \o Split(SubSeq(s, i + 1, Len(s)))

(***************************************************************************)
(* The url crate, for URLs without authority over the model's characters.  *)
(* A Url value is its serialisation.                                       *)
(***************************************************************************)
AlphaChar == {"a", "b", "U", "T", "F"}
SchemeChar == AlphaChar \cup {"-", "8", "2", "0", "3"}

(* Index of the ":" that ends a scheme, 0 when the text has no scheme. *)
SchemeEnd(s) ==
    LET i == FirstIndex(s, ":")
    IN  IF i > 1 /\ s[1] \in AlphaChar /\ \A j \in 2..(i - 1) : s[j] \in SchemeChar
        THEN i ELSE 0

StripFragment(u) ==
    LET i == FirstIndex(u, "#")
    IN  IF i = 0 THEN u ELSE SubSeq(u, 1, i - 1)

(* A URL whose path does not start with "/" cannot be a base. *)
CannotBeABase(u) ==
    LET i == SchemeEnd(u) IN Len(u) = i \/ u[i + 1] # "/"

LastSlash(u) ==
    IF \E i \in 1..Len(u) : u[i] = "/"
    THEN CHOOSE i \in 1..Len(u) : u[i] = "/" /\ \A j \in (i + 1)..Len(u) : u[j] # "/"
    ELSE 0

(* Url::parse: only a text with a scheme is a URL on its own. *)
UrlParse(s) == IF SchemeEnd(s) > 0 THEN Some(s) ELSE None

(* Url::join: an absolute reference replaces the base, a relative one is   *)
(* merged into it (fragment, absolute path, relative path).                *)
UrlJoin(base, s) ==
    IF SchemeEnd(s) > 0 THEN UrlParse(s)
    ELSE IF s # <<>> /\ s[1] = "#" THEN Some(StripFragment(base) \o s)
    ELSE IF CannotBeABase(base) THEN None
    ELSE IF s = <<>> THEN Some(StripFragment(base))
    ELSE IF s[1] = "/" THEN Some(SubSeq(base, 1, SchemeEnd(base)) \o s)
    ELSE LET b == StripFragment(base)
         IN  Some(SubSeq(b, 1, LastSlash(b)) \o s)

compose_context(ctx, anchor) ==
    IF IsSome(ctx) THEN UrlJoin(Unwrap(ctx), anchor) ELSE UrlParse(anchor)

(***************************************************************************)
(* parser.rs: LinkBuilder                                                  *)
(***************************************************************************)
LinkBuilderNew(ctx) ==
    [target |-> <<>>, context |-> ctx, anchored_context |-> None,
     relations |-> <<>>, title |-> None, params |-> <<>>]

set_target(b, target) == [b EXCEPT !.target = b.target \o target]

(* Variant: an anchor that does not compose is dropped, not kept. *)
set_anchor_drop(b, value) ==
    IF IsNone(b.anchored_context)
    THEN [b EXCEPT !.anchored_context = compose_context(b.context, to_string(value))]
    ELSE [b EXCEPT !.params = Append(b.params, ParamNew("anchor", Some(value)))]

set_anchor(b, value) ==
    IF IsNone(b.anchored_context)
    THEN LET composed == compose_context(b.context, to_string(value))
         IN  IF IsNone(composed)
             THEN [b EXCEPT !.anchored_context = composed,
                            !.params = Append(b.params, ParamNew("anchor", Some(value)))]
             ELSE [b EXCEPT !.anchored_context = composed]
    ELSE [b EXCEPT !.params = Append(b.params, ParamNew("anchor", Some(value)))]

(* Variant: the first title stays active, a later title* never replaces it. *)
set_title_first_wins(b, value) ==
    IF IsSome(b.title)
    THEN [b EXCEPT !.params = Append(b.params, ParamNew("title", Some(value)))]
    ELSE [b EXCEPT !.title = Some(value)]

(* Variant: any later title* replaces the active title, a title* included. *)
set_title_last_star_wins(b, value) ==
    IF IsSome(b.title)
    THEN IF is_compound(value)
         THEN [b EXCEPT !.params = Append(b.params, ParamNew("title", b.title)),
                        !.title = Some(value)]
         ELSE [b EXCEPT !.params = Append(b.params, ParamNew("title", Some(value)))]
    ELSE [b EXCEPT !.title = Some(value)]

set_title(b, value) ==
    IF IsSome(b.title)
    THEN LET current_value == Unwrap(b.title)
         IN  IF is_simple(current_value) /\ is_compound(value)
             THEN [b EXCEPT !.params = Append(b.params, ParamNew("title", Some(current_value))),
                            !.title = Some(value)]
             ELSE [b EXCEPT !.params = Append(b.params, ParamNew("title", Some(value)))]
    ELSE [b EXCEPT !.title = Some(value)]

(* Variant: every rel with a value replaces the relations collected so far. *)
set_rel_overwrite(b, value) ==
    [b EXCEPT !.relations = Split(to_string(value))]

set_rel(b, value) ==
    IF b.relations = <<>>
    THEN [b EXCEPT !.relations = b.relations \o Split(to_string(value))]
    ELSE [b EXCEPT !.params = Append(b.params, ParamNew("rel", Some(value)))]

(* Variant: a param already among the params is not added again. *)
add_param_dedup(b, param) ==
    IF \E i \in 1..Len(b.params) : b.params[i] = param THEN b
    ELSE [b EXCEPT !.params = Append(b.params, param)]

add_param(b, param) == [b EXCEPT !.params = Append(b.params, param)]

Link(target, ctx, relation, title, params) ==
    [target |-> target, context |-> ctx, relation |-> relation,
     title |-> title, params |-> params]

(* Variant: only the first relation is turned into a link. *)
build_first_only(b) ==
    LET ctx == IF IsSome(b.anchored_context) THEN b.anchored_context ELSE b.context
    IN  IF b.relations = <<>>
        THEN <<Link(b.target, ctx, None, b.title, b.params)>>
        ELSE <<Link(b.target, ctx, Some(b.relations[1]), b.title, b.params)>>

(* Variant: the early return for a group without relations is missing. *)
build_no_default(b) ==
    LET ctx == IF IsSome(b.anchored_context) THEN b.anchored_context ELSE b.context
    IN  [i \in 1..Len(b.relations) |->
            Link(b.target, ctx, Some(b.relations[i]), b.title, b.params)]

(* Variant: self.context.or(self.anchored_context), the base first. *)
build_base_first(b) ==
    LET ctx == IF IsSome(b.context) THEN b.context ELSE b.anchored_context
    IN  IF b.relations = <<>>
        THEN <<Link(b.target, ctx, None, b.title, b.params)>>
        ELSE [i \in 1..Len(b.relations) |->
                 Link(b.target, ctx, Some(b.relations[i]), b.title, b.params)]

(* Variant: the fall back to the base, .or(self.context), is missing. *)
build_anchored_only(b) ==
    LET ctx == b.anchored_context
    IN  IF b.relations = <<>>
        THEN <<Link(b.target, ctx, None, b.title, b.params)>>
        ELSE [i \in 1..Len(b.relations) |->
                 Link(b.target, ctx, Some(b.relations[i]), b.title, b.params)]

build(b) ==
    LET ctx == IF IsSome(b.anchored_context) THEN b.anchored_context ELSE b.context
    IN  IF b.relations = <<>>
        THEN <<Link(b.target, ctx, None, b.title, b.params)>>
        ELSE [i \in 1..Len(b.relations) |->
                 Link(b.target, ctx, Some(b.relations[i]), b.title, b.params)]

(* Variant: the group's links are put in front of the earlier ones. *)
extend_front(ls, more) == more \o ls

(* Vec::extend in collect_header. *)
extend(ls, more) == ls \o more

(* Variant: the match looks at the name only, a missing value is taken as  *)
(* the empty text.                                                         *)
Dispatch_by_name(b, param) ==
    LET value == IF IsSome(param.value) THEN Unwrap(param.value) ELSE Simple(<<>>)
    IN  IF param.name = "rel" THEN set_rel(b, value)
        ELSE IF param.name = "anchor" THEN set_anchor(b, value)
        ELSE IF param.name = "title" THEN set_title(b, value)
        ELSE add_param(b, param)

(* The match of collect_links on (param.name(), param.value()). *)
Dispatch(b, param) ==
    IF param.name = "rel" /\ IsSome(param.value) THEN set_rel(b, Unwrap(param.value))
    ELSE IF param.name = "anchor" /\ IsSome(param.value) THEN set_anchor(b, Unwrap(param.value))
    ELSE IF param.name = "title" /\ IsSome(param.value) THEN set_title(b, Unwrap(param.value))
    ELSE add_param(b, param)

(***************************************************************************)
(* Inputs: what the tokenizer hands over.                                  *)
(***************************************************************************)
Txt_a == <<"a">>
Txt_a_b == <<"a", " ", "b">>
Txt_a__b == <<"a", " ", " ", "b">>
Txt_sp_a == <<" ", "a">>
Txt_frag == <<"#", "a">>
Txt_abs == <<"a", ":", "b">>
Txt_path == <<"/", "a">>

Bases == {None, Some(<<"b", ":", "/">>), Some(<<"b", ":", "a">>)}
Targets == {<<"/", "a">>, <<"/", "b">>}

RelValues == {Simple(Txt_a), Simple(Txt_a_b), Simple(Txt_a__b), Simple(Txt_sp_a)}
AnchorValues == {Simple(Txt_frag), Simple(Txt_abs), Simple(Txt_path)}
TitleValues == {Simple(Txt_a),
                Compound(Utf8, Some(<<"d", "e">>), Txt_a_b),
                Compound(Extension(<<"b">>), None, Txt_a)}

RawParams ==
    {ParamNew("rel", Some(v)) : v \in RelValues}
    \cup {ParamNew("anchor", Some(v)) : v \in AnchorValues}
    \cup {ParamNew("title", Some(v)) : v \in TitleValues}
    \cup {ParamNew(n, None) : n \in {"rel", "anchor", "title", "hreflang"}}
    \cup {ParamNew("hreflang", Some(Simple(Txt_a)))}

(***************************************************************************)
(* The state machine: collect_header looping over link groups, and         *)
(* collect_links looping over the params of one group.                     *)
(***************************************************************************)
Init ==
    /\ pc = "header"
    /\ context \in Bases
    /\ lb = LinkBuilderNew(context)
    /\ raw = <<>>
    /\ out = <<>>
    /\ links = <<>>
    /\ ngroups = 0
    /\ nnodes = 0
    /\ call = [entry |-> "parse", rule |-> "header"]
    /\ node = None
    /\ result = Pending
    /\ displayed = None
    /\ shown = None

(* collect_links: a link node starts: LinkBuilder::new, then its target. *)
StartLink ==
    /\ pc = "header"
    /\ nnodes < MaxNodes
    /\ \E t \in Targets : lb' = set_target(LinkBuilderNew(context), t)
    /\ raw' = <<>>
    /\ pc' = "link"
    /\ nnodes' = nnodes + 1
    /\ UNCHANGED <<context, out, links, ngroups, call, node, result, displayed, shown>>

(* collect_links: one param node of the group. *)
CollectParam ==
    /\ pc = "link"
    /\ nnodes < MaxNodes
    /\ \E p \in RawParams :
          /\ lb' = Dispatch(lb, p)
          /\ raw' = Append(raw, p)
    /\ nnodes' = nnodes + 1
    /\ UNCHANGED <<pc, context, out, links, ngroups, call, node, result, displayed, shown>>

(* collect_links returns build(); collect_header extends links with it     *)
(* (called on its own, collect_links returns the links to its caller).     *)
Build ==
    /\ pc = "link"
    /\ out' = build(lb)
    /\ links' = extend(links, build(lb))
    /\ ngroups' = ngroups + 1
    /\ IF call.entry = "link"
       THEN pc' = "done" /\ result' = Ok(build(lb))
       ELSE pc' = "header" /\ result' = result
    /\ UNCHANGED <<context, lb, raw, nnodes, call, node, displayed, shown>>

(* collect_header meets EOI and returns the header. *)
Finish ==
    /\ pc = "header"
    /\ pc' = "done"
    /\ result' = Ok(Header(links))
    /\ UNCHANGED <<context, lb, raw, out, links, ngroups, nnodes, call, node, displayed, shown>>

Next == StartLink \/ CollectParam \/ Build \/ Finish

Spec == Init /\ [][Next]_vars

(***************************************************************************)
(* The entry points, from the tokenizer's nodes: parse tokenizes the text  *)
(* and collects the header; the collectors check the rule of the node      *)
(* they are given; collect_param decodes each param node.                  *)
(***************************************************************************)
Rules == {"header", "link", "param", "target", "EOI"}

Cs_UTF8 == <<"U", "T", "F", "-", "8">>
Cs_utf8 == <<"u", "t", "f", "-", "8">>
Cs_Utf8 == <<"U", "t", "f", "-", "8">>
Cs_B == <<"B">>
Lang_de == <<"d", "e">>
Pct_a_sp == <<"a", "%", "2", "0">>
Pct_pct == <<"%", "2", "5">>
Pct_pound == <<"%", "C", "2", "%", "A", "3">>
Pct_bad == <<"%", "F", "F">>

ParamNodes ==
    {ParamNode("REL", "token", <<>>, None, Txt_a),
     ParamNode("TITLE", "quoted", <<>>, None, Txt_a_b),
     ParamNode("rel", "quoted", <<>>, None, Txt_a_b),
     ParamNode("hreflang", "none", <<>>, None, <<>>),
     ParamNode("title", "star", Cs_UTF8, Some(Lang_de), Pct_a_sp),
     ParamNode("title", "star", Cs_Utf8, None, Pct_pct),
     ParamNode("title", "star", Cs_utf8, None, Pct_pound),
     ParamNode("title", "star", Cs_utf8, None, Pct_bad),
     ParamNode("title", "star", Cs_B, None, Pct_bad)}

(* The calls: parse on a text the grammar accepts (its first pair is the   *)
(* header) or rejects ("error"), and each collector on a node of any rule. *)
Calls ==
    {[entry |-> "parse", rule |-> r] : r \in {"header", "error"}}
    \cup {[entry |-> e, rule |-> r] : e \in {"header", "link", "param"}, r \in Rules}

InitParse ==
    /\ pc = "start"
    /\ call \in Calls
    /\ context \in Bases
    /\ lb = LinkBuilderNew(context)
    /\ raw = <<>>
    /\ out = <<>>
    /\ links = <<>>
    /\ ngroups = 0
    /\ nnodes = 0
    /\ node = None
    /\ result = Pending
    /\ displayed = None
    /\ shown = None

(* parse: Rfc8288Parser::parse(..).expect("unsuccessful parse") panics on  *)
(* a text the grammar rejects, and else hands the header to collect_header.*)
Tokenize ==
    /\ pc = "start"
    /\ call.entry = "parse"
    /\ pc' = IF call.rule = "error" THEN "panic" ELSE "header"
    /\ UNCHANGED <<context, lb, raw, out, links, ngroups, nnodes, call, node, result,
                   displayed, shown>>

(* A collector called on a node: its ensure!, then its loop. *)
Ensure ==
    /\ pc = "start"
    /\ call.entry # "parse"
    /\ LET checked == ensure_rule(call.entry, call.rule)
       IN  IF IsErr(checked)
           THEN pc' = "failed" /\ result' = checked /\ UNCHANGED <<lb, nnodes>>
           ELSE /\ result' = result
                /\ IF call.entry = "link"
                   THEN /\ pc' = "link"
                        /\ \E t \in Targets : lb' = set_target(LinkBuilderNew(context), t)
                        /\ nnodes' = nnodes + 1
                   ELSE pc' = call.entry /\ UNCHANGED <<lb, nnodes>>
    /\ UNCHANGED <<context, raw, out, links, ngroups, call, node, displayed, shown>>

(* collect_links: one param node of the group, through collect_param. *)
CollectNode ==
    /\ pc = "link"
    /\ nnodes < MaxNodes
    /\ \E n \in ParamNodes :
          /\ node' = Some(n)
          /\ LET collected == collect_param(n)
             IN  IF IsErr(collected)
                 THEN pc' = "failed" /\ result' = collected /\ UNCHANGED <<lb, raw>>
                 ELSE /\ lb' = Dispatch(lb, collected[2])
                      /\ raw' = Append(raw, collected[2])
                      /\ UNCHANGED <<pc, result>>
    /\ nnodes' = nnodes + 1
    /\ UNCHANGED <<context, out, links, ngroups, call, displayed, shown>>

(* collect_param called on its own on a param node. *)
CollectOne ==
    /\ pc = "param"
    /\ \E n \in ParamNodes :
          /\ node' = Some(n)
          /\ result' = collect_param(n)
    /\ pc' = "done"
    /\ UNCHANGED <<context, lb, raw, out, links, ngroups, nnodes, call, displayed, shown>>

NextParse == Tokenize \/ Ensure \/ StartLink \/ CollectNode \/ CollectOne \/ Build \/ Finish

SpecParse == InitParse /\ [][NextParse]_vars

(***************************************************************************)
(* Compound values on their own: Display writes the value in wire form,    *)
(* and the wire form is read back as a star value: the tokenizer splits it *)
(* at the first two apostrophes, collect_param decodes it.                 *)
(***************************************************************************)
Txt_a_sp == <<"a", " ">>
Txt_a_hash == <<"a", "#">>
Txt_pound == <<"£">>
Txt_pct20 == <<"%", "2", "0">>

ValueTexts == {Txt_a, Txt_a_sp, Txt_a_hash, Txt_pound, Txt_pct20, Pct_bad}
ValueEncodings == {Utf8, Extension(<<"b">>), Extension(Cs_B), Extension(Cs_utf8)}
ValueLanguages == {None, Some(Lang_de), Some(<<>>)}

CompoundValues ==
    {Compound(e, l, t) : e \in ValueEncodings, l \in ValueLanguages, t \in ValueTexts}

(* The star value node the tokenizer makes of a text charset'language'text: *)
(* an empty language segment is no language.                                *)
ParseStar(name, t) ==
    LET i == FirstIndex(t, "'")
        rest == SubSeq(t, i + 1, Len(t))
        j == FirstIndex(rest, "'")
        lang == SubSeq(rest, 1, j - 1)
    IN  ParamNode(name, "star", SubSeq(t, 1, i - 1),
                  IF lang = <<>> THEN None ELSE Some(lang),
                  SubSeq(rest, j + 1, Len(rest)))

InitValue ==
    /\ pc = "value"
    /\ displayed \in {Some(v) : v \in CompoundValues}
    /\ shown = None
    /\ call = [entry |-> "param", rule |-> "param"]
    /\ context = None
    /\ lb = LinkBuilderNew(None)
    /\ raw = <<>>
    /\ out = <<>>
    /\ links = <<>>
    /\ ngroups = 0
    /\ nnodes = 0
    /\ node = None
    /\ result = Pending

(* value.to_string() *)
Display ==
    /\ pc = "value"
    /\ shown' = Some(to_string(Unwrap(displayed)))
    /\ pc' = "shown"
    /\ UNCHANGED <<context, lb, raw, out, links, ngroups, nnodes, call, node, result,
                   displayed>>

(* The text shown is put back in a header as title*=... and collected. *)
Reparse ==
    /\ pc = "shown"
    /\ node' = Some(ParseStar("title", Unwrap(shown)))
    /\ result' = collect_param(ParseStar("title", Unwrap(shown)))
    /\ pc' = "reparsed"
    /\ UNCHANGED <<context, lb, raw, out, links, ngroups, nnodes, call, displayed, shown>>

NextValue == Display \/ Reparse

SpecValue == InitValue /\ [][NextValue]_vars

(***************************************************************************)
(* Vocabulary of the properties, stated over the raw params of the group   *)
(* and not through the builder's own operators.                            *)
(***************************************************************************)
(* build() has returned for the group that lb and raw describe. *)
Built == pc \in {"header", "done"} /\ ngroups > 0

IsValued(p, name) == p.name = name /\ IsSome(p.value)

(* Index in r of the first param called name with a present value, else 0. *)
FirstValued(r, name) ==
    IF \E i \in 1..Len(r) : IsValued(r[i], name)
    THEN CHOOSE i \in 1..Len(r) :
            IsValued(r[i], name) /\ \A j \in 1..(i - 1) : ~IsValued(r[j], name)
    ELSE 0

RemoveAt(s, i) ==
    IF i = 0 THEN s ELSE SubSeq(s, 1, i - 1) \o SubSeq(s, i + 1, Len(s))

Named(s, name) == SelectSeq(s, LAMBDA p : p.name = name)

HasSpace(t) == \E i \in 1..Len(t) : t[i] = " "
CountSpaces(t) == Cardinality({i \in 1..Len(t) : t[i] = " "})

(* The tokens put back together with one space between neighbours. *)
RECURSIVE JoinSp(_)
JoinSp(ts) ==
    IF ts = <<>> THEN <<>>
    ELSE IF Len(ts) = 1 THEN ts[1]
    ELSE ts[1] \o <<" ">> \o JoinSp(Tail(ts))

(* The text of the value of the i-th raw param, as written on the wire. *)
RawText(i) == to_string(Unwrap(raw[i].value))

SeqToBag(s) ==
    [x \in {s[i] : i \in 1..Len(s)} |-> Cardinality({i \in 1..Len(s) : s[i] = x})]

(***************************************************************************)
(* C1: relation explosion.  When the group has a relation source with      *)
(* n >= 1 space-separated tokens, build() returns exactly n links, the     *)
(* i-th carrying the i-th token, and all of them have the same target,     *)
(* context, title and params.                                              *)
(***************************************************************************)
C1_RelationExplosion ==
    LET r == FirstValued(raw, "rel")
    IN  (Built /\ r > 0) =>
           /\ Len(out) = CountSpaces(RawText(r)) + 1
           /\ \A i \in 1..Len(out) :
                 /\ IsSome(out[i].relation)
                 /\ ~HasSpace(Unwrap(out[i].relation))
                 /\ out[i].target = out[1].target
                 /\ out[i].context = out[1].context
                 /\ out[i].title = out[1].title
                 /\ out[i].params = out[1].params
           /\ JoinSp([i \in 1..Len(out) |-> Unwrap(out[i].relation)]) = RawText(r)

C1_Witness ==
    /\ Built
    /\ Len(out) = 2
    /\ out[1].relation = Some(Txt_a)
    /\ out[2].relation = Some(<<"b">>)
    /\ out[1].params # <<>>
    /\ IsSome(out[2].title)

(***************************************************************************)
(* C2: with no rel param carrying a value in the group, build() returns    *)
(* exactly one link and its relation is None, whatever else was set.       *)
(***************************************************************************)
C2_NoRelationOneLink ==
    (Built /\ FirstValued(raw, "rel") = 0) =>
        Len(out) = 1 /\ out[1].relation = None

C2_Witness ==
    /\ Built
    /\ FirstValued(raw, "rel") = 0
    /\ Len(raw) = 3
    /\ \E i \in 1..3 : raw[i] = ParamNew("rel", None)
    /\ IsSome(out[1].title)
    /\ out[1].context # context

(***************************************************************************)
(* C3: duplicate rel tolerance.  Within one group the relations come from  *)
(* the first rel with a value and from nothing else, and every other rel   *)
(* occurrence is kept verbatim in params, in arrival order.                *)
(***************************************************************************)
C3_DuplicateRelTolerated ==
    LET r == FirstValued(raw, "rel")
    IN  /\ r = 0 => lb.relations = <<>>
        /\ r > 0 => /\ JoinSp(lb.relations) = RawText(r)
                    /\ Len(lb.relations) = CountSpaces(RawText(r)) + 1
        /\ Named(lb.params, "rel") = Named(RemoveAt(raw, r), "rel")
        /\ Built => \A i \in 1..Len(out) :
                       /\ out[i].params = lb.params
                       /\ out[i].relation =
                             IF r = 0 THEN None ELSE Some(lb.relations[i])

C3_Witness ==
    /\ Built
    /\ raw = <<ParamNew("rel", Some(Simple(Txt_a))),
               ParamNew("rel", Some(Simple(Txt_a_b))),
               ParamNew("rel", None)>>
    /\ Len(out) = 1
    /\ out[1].relation = Some(Txt_a)
    /\ out[1].params = Tail(raw)

(***************************************************************************)
(* C4: every relation of an output link is a non-empty text without a      *)
(* space, whatever spaces the rel value has.                               *)
(***************************************************************************)
C4_RelationsNonEmpty ==
    \A i \in 1..Len(out) :
        IsSome(out[i].relation) =>
            /\ Unwrap(out[i].relation) # <<>>
            /\ ~HasSpace(Unwrap(out[i].relation))

(***************************************************************************)
(* C5: title precedence.  A title* (Compound) arriving while the active    *)
(* title is Simple becomes the active title, and the Simple value is       *)
(* appended to params as a "title" param.                                  *)
(***************************************************************************)
(* The step reads one more param of the group, and it is a valued title. *)
ReadsTitle ==
    /\ pc = "link" /\ pc' = "link"
    /\ Len(raw') = Len(raw) + 1
    /\ IsValued(raw'[Len(raw')], "title")

C5_TitlePrecedence ==
    [][ (/\ ReadsTitle
         /\ IsSome(lb.title) /\ Unwrap(lb.title).kind = "Simple"
         /\ Unwrap(raw'[Len(raw')].value).kind = "Compound")
        => /\ lb'.title = raw'[Len(raw')].value
           /\ lb'.params = Append(lb.params, ParamNew("title", lb.title)) ]_vars

C5_Witness ==
    /\ Built
    /\ raw = <<ParamNew("rel", Some(Simple(Txt_a))),
               ParamNew("title", Some(Simple(Txt_a))),
               ParamNew("title", Some(Compound(Utf8, Some(<<"d", "e">>), Txt_a_b)))>>
    /\ out[1].title = Some(Compound(Utf8, Some(<<"d", "e">>), Txt_a_b))
    /\ out[1].params = <<ParamNew("title", Some(Simple(Txt_a)))>>

(***************************************************************************)
(* C6: once a Compound title is active, a later title (Simple or           *)
(* Compound) does not change it and is appended to params as a "title"     *)
(* param; no other step of the group changes the active title either.      *)
(***************************************************************************)
C6_CompoundTitleSticks ==
    [][ (/\ pc = "link"
         /\ IsSome(lb.title) /\ Unwrap(lb.title).kind = "Compound")
        => /\ lb'.title = lb.title
           /\ ReadsTitle => lb'.params = Append(lb.params, raw'[Len(raw')]) ]_vars

C6_Witness ==
    /\ Built
    /\ raw = <<ParamNew("title", Some(Compound(Extension(<<"b">>), None, Txt_a))),
               ParamNew("title", Some(Compound(Utf8, Some(<<"d", "e">>), Txt_a_b))),
               ParamNew("title", Some(Simple(Txt_a)))>>
    /\ out[1].title = Some(Compound(Extension(<<"b">>), None, Txt_a))
    /\ out[1].params = Tail(raw)

(***************************************************************************)
(* C7: anchor resolution.  With a base URL, when the first anchor with a   *)
(* value resolves against the base, every link of the group has that       *)
(* resolved URL as its context (an absolute anchor replaces the base),     *)
(* and that anchor occurrence is not among the params.                     *)
(***************************************************************************)
C7_AnchorResolution ==
    LET a == FirstValued(raw, "anchor")
    IN  (IsSome(context) /\ a > 0 /\ IsSome(UrlJoin(Unwrap(context), RawText(a)))) =>
           LET resolved == UrlJoin(Unwrap(context), RawText(a))
           IN  /\ SchemeEnd(RawText(a)) > 0 => resolved = Some(RawText(a))
               /\ lb.anchored_context = resolved
               /\ Named(lb.params, "anchor") = Named(RemoveAt(raw, a), "anchor")
               /\ Built => \A i \in 1..Len(out) :
                              /\ out[i].context = resolved
                              /\ out[i].params = lb.params

C7_Witness ==
    /\ Built
    /\ context = Some(<<"b", ":", "/">>)
    /\ raw = <<ParamNew("rel", Some(Simple(Txt_a_b))),
               ParamNew("anchor", Some(Simple(Txt_frag))),
               ParamNew("anchor", Some(Simple(Txt_frag)))>>
    /\ Len(out) = 2
    /\ out[2].context = Some(<<"b", ":", "/", "#", "a">>)
    /\ out[2].params = <<ParamNew("anchor", Some(Simple(Txt_frag)))>>

(***************************************************************************)
(* C8: anchor fallback.  When composing the first anchor with a value      *)
(* fails, that anchor is kept in params as ("anchor", value), and with no  *)
(* base URL the context of the group's links is None.                      *)
(***************************************************************************)
C8_AnchorFallback ==
    LET a == FirstValued(raw, "anchor")
    IN  (Built /\ a > 0 /\ IsNone(compose_context(context, RawText(a)))) =>
           \A i \in 1..Len(out) :
               /\ \E j \in 1..Len(out[i].params) :
                     out[i].params[j] = ParamNew("anchor", raw[a].value)
               /\ IsNone(context) => out[i].context = None

(***************************************************************************)
(* C9: only the first anchor with a value attempts composition: the        *)
(* anchored context is what that anchor composes to (None if it fails),    *)
(* and every other anchor occurrence is kept in params.                    *)
(***************************************************************************)
C9_OnlyFirstAnchorComposes ==
    LET a == FirstValued(raw, "anchor")
    IN  a > 0 =>
           LET composed == compose_context(context, RawText(a))
           IN  /\ lb.anchored_context = composed
               /\ Named(lb.params, "anchor") =
                     Named(IF IsSome(composed) THEN RemoveAt(raw, a) ELSE raw, "anchor")

(***************************************************************************)
(* C10: no information loss.  Every raw param of the group is either the   *)
(* consumed relation source, the anchor that produced the context, the     *)
(* active title, or occurs exactly once in params; so params has as many   *)
(* entries as there are raw params minus the consumed ones.                *)
(***************************************************************************)
ValuedAt(name) == {i \in 1..Len(raw) : IsValued(raw[i], name)}

BagAt(s, idx) ==
    [x \in {s[i] : i \in idx} |-> Cardinality({i \in idx : s[i] = x})]

C10_NoInformationLoss ==
    \E r \in {0} \cup ValuedAt("rel"), a \in {0} \cup ValuedAt("anchor"),
       t \in {0} \cup ValuedAt("title") :
        /\ IF r = 0 THEN lb.relations = <<>>
           ELSE lb.relations # <<>> /\ JoinSp(lb.relations) = RawText(r)
        /\ IF a = 0 THEN lb.anchored_context = None
           ELSE /\ IsSome(lb.anchored_context)
                /\ lb.anchored_context = compose_context(context, RawText(a))
        /\ IF t = 0 THEN lb.title = None ELSE lb.title = raw[t].value
        /\ SeqToBag(lb.params) = BagAt(raw, (1..Len(raw)) \ {r, a, t})
        /\ Len(lb.params) = Len(raw) - Cardinality({r, a, t} \ {0})
        /\ Built => \A i \in 1..Len(out) :
                       /\ out[i].params = lb.params
                       /\ out[i].title = lb.title
                       /\ out[i].context =
                             IF a = 0 THEN context ELSE lb.anchored_context

C10_Witness ==
    /\ Built
    /\ raw = <<ParamNew("title", Some(Simple(Txt_a))),
               ParamNew("anchor", Some(Simple(Txt_path))),
               ParamNew("title", Some(Compound(Utf8, Some(<<"d", "e">>), Txt_a_b)))>>
    /\ context = Some(<<"b", ":", "a">>)
    /\ Len(out) = 1
    /\ Len(out[1].params) = 2
    /\ out[1].context = context

(***************************************************************************)
(* C11: reserved names are classified by their lower-cased name: a param   *)
(* named REL or TITLE in any letter case, with a value, is handled as rel  *)
(* or title (the first such rel sets the relations, the first such title   *)
(* the title) and is not kept as an ordinary param.                        *)
(***************************************************************************)
LowerName(name) ==
    CASE name = "REL" -> "rel"
      [] name = "TITLE" -> "title"
      [] OTHER -> name

FirstValuedLower(r, name) ==
    IF \E i \in 1..Len(r) : LowerName(r[i].name) = name /\ IsSome(r[i].value)
    THEN CHOOSE i \in 1..Len(r) :
            /\ LowerName(r[i].name) = name /\ IsSome(r[i].value)
            /\ \A j \in 1..(i - 1) : ~(LowerName(r[j].name) = name /\ IsSome(r[j].value))
    ELSE 0

C11_ReservedByLowerName ==
    LET r == FirstValuedLower(raw, "rel")
        t == FirstValuedLower(raw, "title")
    IN  pc = "link" =>
           /\ r > 0 => /\ JoinSp(lb.relations) = RawText(r)
                       /\ \A i \in 1..Len(lb.params) : lb.params[i].name # "REL"
           /\ t > 0 => IsSome(lb.title)

(***************************************************************************)
(* C12: header assembly order.  Each group's links are appended, in        *)
(* document order, after the links of the earlier groups: building a group *)
(* adds max(1, number of its relation tokens) links at the end, no other   *)
(* step (the end-of-input marker included) changes links, and the header   *)
(* returned holds exactly these links.                                     *)
(***************************************************************************)
C12_HeaderAssemblyOrder ==
    [][ /\ (pc = "link" /\ pc' = "header") =>
              LET r == FirstValued(raw, "rel")
                  n == IF r = 0 THEN 1 ELSE CountSpaces(RawText(r)) + 1
              IN  /\ Len(links') = Len(links) + n
                  /\ SubSeq(links', 1, Len(links)) = links
                  /\ SubSeq(links', Len(links) + 1, Len(links')) = out'
        /\ ~(pc = "link" /\ pc' = "header") => links' = links
        /\ pc' = "done" => result' = Ok(Header(links)) ]_vars

C12_Witness ==
    /\ pc = "done"
    /\ ngroups = 2
    /\ result = Ok(Header(links))
    /\ Len(links) = 3
    /\ links[1].relation = Some(Txt_a)
    /\ links[2].relation = Some(<<"b">>)
    /\ links[3].relation = None
    /\ links[3].target # links[1].target

(***************************************************************************)
(* C13: per-group context.  The context of every link of a group is the    *)
(* URL composed from an anchor of that same group if one composed, and     *)
(* otherwise the base URL handed to parse (None without a base); anchors   *)
(* of other groups play no part.                                           *)
(***************************************************************************)
C13_PerGroupContext ==
    Built =>
        /\ SubSeq(links, Len(links) - Len(out) + 1, Len(links)) = out
        /\ \A i \in 1..Len(out) :
              IF \E a \in ValuedAt("anchor") :
                    IsSome(compose_context(context, RawText(a)))
              THEN \E a \in ValuedAt("anchor") :
                      /\ IsSome(out[i].context)
                      /\ out[i].context = compose_context(context, RawText(a))
              ELSE out[i].context = context

C13_Witness ==
    /\ Built
    /\ ngroups = 2
    /\ IsSome(context)
    /\ Len(links) = 2
    /\ links[1].context = Some(<<"b", ":", "/", "#", "a">>)
    /\ links[2].context = context
    /\ raw = <<>>

(***************************************************************************)
(* C14: decode failure is all-or-nothing.  Once a star value with charset  *)
(* utf-8 (any letter case) whose percent-decoded bytes are not UTF-8 has   *)
(* been met, in whatever group, the result is the decode failure and       *)
(* nothing else: no header, no links, and collecting has stopped.          *)
(***************************************************************************)
IsUtf8Charset(cs) ==
    /\ Len(cs) = 5
    /\ cs[1] \in {"u", "U"}
    /\ cs[2] \in {"t", "T"}
    /\ cs[3] \in {"f", "F"}
    /\ cs[4] = "-"
    /\ cs[5] = "8"

(* %FF is a byte that no UTF-8 text contains. *)
BadUtf8(n) == n.kind = "star" /\ IsUtf8Charset(n.encoding) /\ n.text = Pct_bad

C14_DecodeAllOrNothing ==
    (IsSome(node) /\ BadUtf8(Unwrap(node))) =>
        /\ result = Err(Utf8Error)
        /\ call.entry # "param" => pc = "failed"

C14_Witness ==
    /\ call.entry = "parse"
    /\ IsSome(node) /\ BadUtf8(Unwrap(node))
    /\ pc = "failed"
    /\ ngroups = 1
    /\ links # <<>>
    /\ result = Err(Utf8Error)

(***************************************************************************)
(* C15: when the header text does not match the grammar, parse returns a   *)
(* typed failure to its caller: it ends failed with an Err result, never   *)
(* aborting and never with a header.                                       *)
(***************************************************************************)
C15_SyntaxErrorIsTypedFailure ==
    (call.entry = "parse" /\ call.rule = "error" /\ pc # "start") =>
        pc = "failed" /\ IsErr(result)

(***************************************************************************)
(* C16: invalid rule detection.  An entry point given a node whose rule is *)
(* not the one it requires fails with InvalidRule(expected, given) and     *)
(* produces no link, header or param.                                      *)
(***************************************************************************)
C16_InvalidRule ==
    (call.entry \in {"header", "link", "param"} /\ call.rule # call.entry /\ pc # "start") =>
        /\ pc = "failed"
        /\ result = Err(InvalidRule(call.entry, call.rule))
        /\ links = <<>>
        /\ out = <<>>
        /\ raw = <<>>
        /\ node = None

C16_Witness ==
    /\ call = [entry |-> "link", rule |-> "param"]
    /\ pc = "failed"
    /\ result = Err(InvalidRule("link", "param"))

(***************************************************************************)
(* C17: displaying a Compound value yields charset'language'value: the     *)
(* charset is UTF-8 for Utf8 and the stored token for Extension, the       *)
(* language segment is empty when there is no language, and the value is   *)
(* percent-encoded for Utf8 and passed through verbatim for Extension.     *)
(***************************************************************************)
WireOf(t) ==
    CASE t = Txt_a_sp -> Pct_a_sp
      [] t = Txt_a_hash -> <<"a", "%", "2", "3">>
      [] t = Txt_pound -> Pct_pound
      [] OTHER -> t

C17_CompoundDisplay ==
    pc \in {"shown", "reparsed"} =>
        LET v == Unwrap(displayed)
            charset == IF v.encoding = Utf8 THEN Cs_UTF8 ELSE v.encoding[2]
            language == IF v.language = None THEN <<>> ELSE v.language[1]
            body == IF v.encoding = Utf8 THEN WireOf(v.value) ELSE v.value
        IN  shown = Some(charset \o <<"'">> \o language \o <<"'">> \o body)

C17_Witness ==
    /\ pc = "shown"
    /\ displayed = Some(Compound(Extension(Cs_B), None, Txt_a_sp))
    /\ shown = Some(<<"B", "'", "'", "a", " ">>)

(***************************************************************************)
(* C18: wire round trip.  For every Compound value v, reading v.to_string() *)
(* back as a star value gives a value equal to v in encoding, language and  *)
(* value.                                                                   *)
(***************************************************************************)
C18_WireRoundTrip ==
    pc = "reparsed" =>
        IsOk(result) /\ result[2].value = displayed

(***************************************************************************)
(* C19: value decoding by charset.  A star value whose charset is utf-8 in *)
(* any letter case becomes Compound with encoding Utf8 and the             *)
(* percent-decoded text; a star value of any other charset becomes         *)
(* Compound with Extension(lower-cased charset) and the raw text, still    *)
(* percent-encoded; token and quoted values become Simple(raw text).       *)
(***************************************************************************)
LowerCharset(cs) == IF cs = Cs_B THEN <<"b">> ELSE cs

Decoded(t) ==
    CASE t = Pct_a_sp -> <<"a", " ">>
      [] t = Pct_pct -> <<"%">>
      [] t = Pct_pound -> <<"£">>
      [] OTHER -> t

DecodedAs(n, p) ==
    /\ p.name = n.name
    /\ n.kind = "none" => p.value = None
    /\ n.kind \in {"token", "quoted"} => p.value = Some(Simple(n.text))
    /\ (n.kind = "star" /\ IsUtf8Charset(n.encoding)) =>
          p.value = Some(Compound(Utf8, n.language, Decoded(n.text)))
    /\ (n.kind = "star" /\ ~IsUtf8Charset(n.encoding)) =>
          p.value = Some(Compound(Extension(LowerCharset(n.encoding)), n.language, n.text))

C19_DecodingByCharset ==
    /\ (pc = "link" /\ raw # <<>> /\ IsSome(node)) =>
          DecodedAs(Unwrap(node), raw[Len(raw)])
    /\ (call.entry = "param" /\ pc = "done" /\ ~BadUtf8(Unwrap(node))) =>
          IsOk(result) /\ DecodedAs(Unwrap(node), result[2])

C19_Witness ==
    /\ pc = "link"
    /\ Len(raw) = 3
    /\ raw[1].value = Some(Compound(Extension(<<"b">>), None, Pct_bad))
    /\ raw[2].value = Some(Compound(Utf8, Some(Lang_de), <<"a", " ">>))
    /\ raw[3].value = Some(Compound(Utf8, None, <<"£">>))

(***************************************************************************)
(* C20: params named neither rel, anchor nor title are all appended to     *)
(* params: they are there in arrival order, duplicates included, each      *)
(* with its value (or its absence of value) unchanged.                     *)
(***************************************************************************)
Reserved == {"rel", "anchor", "title"}
Others(s) == SelectSeq(s, LAMBDA p : p.name \notin Reserved)

C20_OtherParamsKept ==
    /\ Others(lb.params) = Others(raw)
    /\ Built => \A i \in 1..Len(out) : Others(out[i].params) = Others(raw)

C20_Witness ==
    /\ Built
    /\ raw = <<ParamNew("hreflang", None),
               ParamNew("hreflang", Some(Simple(Txt_a))),
               ParamNew("hreflang", None)>>
    /\ out[1].params = raw

(***************************************************************************)
(* C21: a reserved name without a value never takes the reserved slot: it  *)
(* is appended to params as (name, None), and a later occurrence of the    *)
(* name with a value is still the first valued one: the relation source,   *)
(* the anchor that is composed, or the active title.                       *)
(***************************************************************************)
Bare(s) == SelectSeq(s, LAMBDA p : p.name \in Reserved /\ p.value = None)

(* The title the valued titles of r leave active: the first one, unless it *)
(* is Simple and a Compound follows, then the first Compound.              *)
ActiveTitle(r) ==
    LET t == FirstValued(r, "title")
        stars == {i \in (t + 1)..Len(r) :
                     IsValued(r[i], "title") /\ Unwrap(r[i].value).kind = "Compound"}
    IN  IF Unwrap(r[t].value).kind = "Simple" /\ stars # {}
        THEN r[CHOOSE i \in stars : \A j \in stars : i <= j].value
        ELSE r[t].value

C21_BareReservedIsOpaque ==
    LET r == FirstValued(raw, "rel")
        a == FirstValued(raw, "anchor")
        t == FirstValued(raw, "title")
    IN  /\ Bare(lb.params) = Bare(raw)
        /\ r = 0 => lb.relations = <<>>
        /\ r > 0 => JoinSp(lb.relations) = RawText(r)
        /\ t = 0 => lb.title = None
        /\ t > 0 => lb.title = ActiveTitle(raw)
        /\ a = 0 => lb.anchored_context = None
        /\ a > 0 =>
              LET composed == compose_context(context, RawText(a))
              IN  IF IsSome(composed)
                  THEN /\ lb.anchored_context = composed
                       /\ Named(lb.params, "anchor") = Named(RemoveAt(raw, a), "anchor")
                  ELSE \E i \in 1..Len(lb.params) : lb.params[i] = raw[a]
        /\ Built => \A i \in 1..Len(out) : Bare(out[i].params) = Bare(raw)

C21_Witness ==
    /\ Built
    /\ raw = <<ParamNew("title", None),
               ParamNew("rel", None),
               ParamNew("rel", Some(Simple(Txt_a_b)))>>
    /\ Len(out) = 2
    /\ out[2].relation = Some(<<"b">>)
    /\ out[2].params = <<ParamNew("title", None), ParamNew("rel", None)>>

(***************************************************************************)
(* C22: any two entries of a link's params stand in the order in which    *)
(* their raw params occurred in the group, a Simple title demoted by a     *)
(* later Compound title included: params is raw with some entries left     *)
(* out.                                                                    *)
(***************************************************************************)
RECURSIVE IsSubSeq(_, _)
IsSubSeq(s, r) ==
    IF s = <<>> THEN TRUE
    ELSE IF r = <<>> THEN FALSE
    ELSE IF Head(s) = Head(r) /\ IsSubSeq(Tail(s), Tail(r)) THEN TRUE
    ELSE IsSubSeq(s, Tail(r))

C22_ParamsInRawOrder ==
    /\ IsSubSeq(lb.params, raw)
    /\ Built => \A i \in 1..Len(out) : IsSubSeq(out[i].params, raw)

====
